---------------------------- MODULE Spec2Model ----------------------------
(***************************************************************************)
(* Model of src/src/checker_common.py: the command runner (run_command),   *)
(* the helm and kubectl provisioners with their cleanup closures, and the  *)
(* YAML template expansion (string.Template.safe_substitute over a fixed   *)
(* mapping computed from os.environ and time.time()).                      *)
(*                                                                         *)
(* Python strings are sequences of one-character strings, so that          *)
(* concatenation, containment and the placeholder scanner work on the      *)
(* characters.  Python's None is the value None below.                     *)
(***************************************************************************)
EXTENDS Integers, Sequences, FiniteSets, TLC

VARIABLES
    environ,            \* os.environ: variable name -> None or its string value
    clock,              \* what time.time() returns now, in whole seconds
    files,              \* the filesystem: the paths that exist -> file content
    trace,              \* prints to stdout and subprocess.run calls, in order
    cleanup_functions,  \* the closures returned to the caller so far
    result              \* the last call of this module and how it ended

vars == <<environ, clock, files, trace, cleanup_functions, result>>

----------------------------------------------------------------------------
(* Strings *)

None == <<"NoneType">>

Digit == {"0", "1", "2", "3", "4", "5", "6", "7", "8", "9"}
Upper == {"A", "B", "C", "D", "E", "F", "G", "H", "I", "J", "K", "L", "M",
          "N", "O", "P", "Q", "R", "S", "T", "U", "V", "W", "X", "Y", "Z"}
Lower == {"a", "b", "c", "d", "e", "f", "g", "h", "i", "j", "k", "l", "m",
          "n", "o", "p", "q", "r", "s", "t", "u", "v", "w", "x", "y", "z"}

\* sub occurs in s as a contiguous substring (Python's `sub in s`)
Contains(s, sub) ==
    \E i \in 0..(Len(s) - Len(sub)) : SubSeq(s, i + 1, i + Len(sub)) = sub

StartsWith(s, p) == Len(p) <= Len(s) /\ SubSeq(s, 1, Len(p)) = p
EndsWith(s, p) == Len(p) <= Len(s) /\ SubSeq(s, Len(s) - Len(p) + 1, Len(s)) = p

RECURSIVE Concat(_)
Concat(ss) == IF ss = <<>> THEN <<>> ELSE Head(ss) \o Concat(Tail(ss))

\* str(x) / f"{x}" of a value that is a string or None
Str(x) == IF x = None THEN <<"N", "o", "n", "e">> ELSE x

DigitChar(d) == <<"0", "1", "2", "3", "4", "5", "6", "7", "8", "9">>[d + 1]
DigitVal(c) == CHOOSE d \in 0..9 : DigitChar(d) = c

RECURSIVE Digits(_)
Digits(n) == IF n < 10 THEN <<DigitChar(n)>>
             ELSE Digits(n \div 10) \o <<DigitChar(n % 10)>>

\* str(n) of a Python int (unbounded, so no wrap-around)
IntToStr(n) == IF n < 0 THEN <<"-">> \o Digits(-n) ELSE Digits(n)

----------------------------------------------------------------------------
(* generate_helm_command *)

INSTALL == "install"
UNINSTALL == "uninstall"
HelmCommand == {INSTALL, UNINSTALL}

\* the uninstall branch, had it appended helm_install_flags as the install
\* branch does
UninstallWithFlags(helm_path, release_name, helm_install_flags) ==
    helm_path \o <<" ", "u", "n", "i", "n", "s", "t", "a", "l", "l", " ">>
              \o release_name
              \o (IF helm_install_flags # None
                  THEN <<" ">> \o helm_install_flags ELSE <<>>)

\* lines 98-99: the uninstall branch
UninstallBranch(helm_path, release_name, helm_install_flags) ==
    helm_path \o <<" ", "u", "n", "i", "n", "s", "t", "a", "l", "l", " ">>
              \o release_name

\* line 101
InstallBase(helm_path, release_name, chart) ==
    helm_path \o <<" ", "i", "n", "s", "t", "a", "l", "l", " ">>
              \o release_name \o <<" ">> \o Str(chart)

\* lines 104-105
AppendVersion(command, chart_version) ==
    IF chart_version # None
    THEN command \o <<" ", "-", "-", "v", "e", "r", "s", "i", "o", "n", " ">>
                 \o chart_version
    ELSE command

\* lines 108-110: values is a dict, here the sequence of its items in
\* insertion order
RECURSIVE SetLoop(_, _)
SetLoop(command, items) ==
    IF items = <<>> THEN command
    ELSE SetLoop(command \o <<" ", "-", "-", "s", "e", "t", " ">>
                         \o Head(items)[1] \o <<"=">> \o Head(items)[2],
                 Tail(items))

\* the loop, had it put each fragment before the earlier ones
RECURSIVE SetLoopReversed(_, _)
SetLoopReversed(command, items) ==
    IF items = <<>> THEN command
    ELSE SetLoopReversed(command, Tail(items))
             \o <<" ", "-", "-", "s", "e", "t", " ">>
             \o Head(items)[1] \o <<"=">> \o Head(items)[2]

AppendValuesReversed(command, values) ==
    IF values # None THEN SetLoopReversed(command, values) ELSE command

\* lines 108-110
AppendValues(command, values) ==
    IF values # None THEN SetLoop(command, values) ELSE command

\* lines 112-113
AppendFlags(command, helm_install_flags) ==
    IF helm_install_flags # None
    THEN command \o <<" ">> \o helm_install_flags
    ELSE command

\* lines 87-114
GenerateHelmCommand(helm_path, release_name, chart, values, chart_version, helm_install_flags, helm_command_type) ==
    IF helm_command_type = UNINSTALL
    THEN UninstallBranch(helm_path, release_name, helm_install_flags)
    ELSE AppendFlags(
             AppendValues(
                 AppendVersion(InstallBase(helm_path, release_name, chart),
                               chart_version),
                 values),
             helm_install_flags)

----------------------------------------------------------------------------
(* expand_template: string.Template(text).safe_substitute(mapping) *)

\* string.Template.idpattern [_a-z][_a-z0-9]* under re.IGNORECASE
IsIdStart(c) == c = "_" \/ c \in Upper \/ c \in Lower
IsIdChar(c) == IsIdStart(c) \/ c \in Digit

\* the index of the last character of the identifier that starts at t[i]
\* (the pattern is greedy)
RECURSIVE IdEnd(_, _)
IdEnd(t, i) == IF i + 1 <= Len(t) /\ IsIdChar(t[i + 1]) THEN IdEnd(t, i + 1) ELSE i

\* the values the mapping holds: ints, strings and None
PyInt(n) == [type |-> "int", val |-> n]
PyStrOrNone(x) == [type |-> "str | None", val |-> x]
\* str(v), which safe_substitute applies to the value it inserts
PyStr(v) == IF v.type = "int" THEN IntToStr(v.val) ELSE Str(v.val)

\* convert(), had it substituted a value for every name
ConvertAlways(mapping, name, matched) == PyStr(mapping[CHOOSE k \in DOMAIN mapping : TRUE])

\* convert() of safe_substitute for a named or braced match: the value of a
\* key of the mapping, and the matched text itself on KeyError

Convert(mapping, name, matched) ==
    IF name \in DOMAIN mapping THEN PyStr(mapping[name]) ELSE matched

\* the escape $$: convert() returns the delimiter
Escape == <<"$">>

\* re.sub over the template, leftmost match first, from position i on:
\* $$ | $identifier | ${identifier} | a lone $ (invalid, left as it is)
RECURSIVE Substitute(_, _, _)
Substitute(t, i, mapping) ==
    IF i > Len(t) THEN <<>>
    ELSE IF t[i] # "$" THEN <<t[i]>> \o Substitute(t, i + 1, mapping)
    ELSE IF i + 1 <= Len(t) /\ t[i + 1] = "$"
         THEN Escape \o Substitute(t, i + 2, mapping)
    ELSE IF i + 1 <= Len(t) /\ IsIdStart(t[i + 1])
         THEN LET e == IdEnd(t, i + 1)
              IN Convert(mapping, SubSeq(t, i + 1, e), SubSeq(t, i, e))
                     \o Substitute(t, e + 1, mapping)
    ELSE IF /\ i + 2 <= Len(t) /\ t[i + 1] = "{" /\ IsIdStart(t[i + 2])
            /\ IdEnd(t, i + 2) + 1 <= Len(t) /\ t[IdEnd(t, i + 2) + 1] = "}"
         THEN LET e == IdEnd(t, i + 2)
              IN Convert(mapping, SubSeq(t, i + 2, e), SubSeq(t, i, e + 1))
                     \o Substitute(t, e + 2, mapping)
    ELSE <<"$">> \o Substitute(t, i + 1, mapping)

SafeSubstitute(t, mapping) == Substitute(t, 1, mapping)

\* int(s) of a string: surrounding whitespace, a sign, decimal digits with
\* single underscores between them; anything else is a ValueError
RECURSIVE Strip(_)
Strip(s) ==
    IF s # <<>> /\ Head(s) = " " THEN Strip(Tail(s))
    ELSE IF s # <<>> /\ s[Len(s)] = " " THEN Strip(SubSeq(s, 1, Len(s) - 1))
    ELSE s

RECURSIVE DigitsValue(_, _)
DigitsValue(ds, acc) ==
    IF ds = <<>> THEN acc
    ELSE IF Head(ds) = "_" THEN DigitsValue(Tail(ds), acc)
    ELSE DigitsValue(Tail(ds), 10 * acc + DigitVal(Head(ds)))

ParseInt(s) ==
    LET b == Strip(s)
        signed == b # <<>> /\ Head(b) \in {"+", "-"}
        ds == IF signed THEN Tail(b) ELSE b
        wellFormed ==
            /\ ds # <<>>
            /\ \A i \in 1..Len(ds) : ds[i] \in Digit \/ ds[i] = "_"
            /\ ds[1] # "_" /\ ds[Len(ds)] # "_"
            /\ \A i \in 1..(Len(ds) - 1) : ~(ds[i] = "_" /\ ds[i + 1] = "_")
    IN IF ~wellFormed THEN [ok |-> FALSE, val |-> 0]
       ELSE [ok |-> TRUE,
             val |-> IF signed /\ Head(b) = "-" THEN -DigitsValue(ds, 0) ELSE DigitsValue(ds, 0)]

N_CHECK_TIME_EPOCH_SEC == <<"C", "H", "E", "C", "K", "_", "T", "I", "M", "E", "_", "E", "P", "O", "C", "H", "_", "S", "E", "C">>
N_DRY_RUN == <<"D", "R", "Y", "_", "R", "U", "N">>
N_ORIG_CHECK_TIME_EPOCH_SEC == <<"O", "R", "I", "G", "_", "C", "H", "E", "C", "K", "_", "T", "I", "M", "E", "_", "E", "P", "O", "C", "H", "_", "S", "E", "C">>
N_R_LEVEL == <<"R", "_", "L", "E", "V", "E", "L">>
N_IMAGE_TAG == <<"I", "M", "A", "G", "E", "_", "T", "A", "G">>
N_SHORT_GUID == <<"S", "H", "O", "R", "T", "_", "G", "U", "I", "D">>
N_ITERATIONS == <<"I", "T", "E", "R", "A", "T", "I", "O", "N", "S">>
N_EXPIRY_TIME_EPOCH_SEC == <<"E", "X", "P", "I", "R", "Y", "_", "T", "I", "M", "E", "_", "E", "P", "O", "C", "H", "_", "S", "E", "C">>

\* the keys of the dict of lines 219-230
MappingKeys == {N_CHECK_TIME_EPOCH_SEC, N_DRY_RUN, N_ORIG_CHECK_TIME_EPOCH_SEC, N_R_LEVEL, N_IMAGE_TAG, N_SHORT_GUID, N_ITERATIONS, N_EXPIRY_TIME_EPOCH_SEC}

DefaultImageTag == <<"l", "a", "t", "e", "s", "t">>
DefaultIterations == 5
DefaultHealthValidityHours == <<"2", "4">>
ShortGuidLen == 4

\* os.environ.get("IMAGE_TAG", "latest")
EnvImageTag(env) ==
    IF env["IMAGE_TAG"] # None THEN env["IMAGE_TAG"] ELSE DefaultImageTag

\* the validity, had the environment variable not been read
HealthValidityHoursIgnoresEnv(env) == DefaultHealthValidityHours

\* os.environ.get("HEALTH_VALIDITY_HOURS", "24")

HealthValidityHoursText(env) ==
    IF env["HEALTH_VALIDITY_HOURS"] # None THEN env["HEALTH_VALIDITY_HOURS"]
    ELSE DefaultHealthValidityHours

\* int(time.time()) - int(hours) * 60 * 60, from the later reading of the clock
ExpiryTime(t1, t2, hours) == t2 - hours * 60 * 60

\* the dict of lines 219-230; t1 and t2 are the two readings of time.time()
\* (lines 220 and 228), uuid4 is str(uuid.uuid4())
TemplateMapping(env, t1, t2, uuid4) ==
    [k \in MappingKeys |->
        CASE k = N_CHECK_TIME_EPOCH_SEC -> PyInt(t1)
          [] k = N_DRY_RUN -> PyStrOrNone(env["DRY_RUN"])
          [] k = N_ORIG_CHECK_TIME_EPOCH_SEC -> PyStrOrNone(env["CHECK_TIME_EPOCH_SEC"])
          [] k = N_R_LEVEL -> PyStrOrNone(env["R_LEVEL"])
          [] k = N_IMAGE_TAG -> PyStrOrNone(EnvImageTag(env))
          [] k = N_SHORT_GUID ->
                 PyStrOrNone(IF env["SHORT_GUID"] # None THEN env["SHORT_GUID"]
                             ELSE SubSeq(uuid4, 1, ShortGuidLen))
          [] k = N_ITERATIONS ->
                 IF env["ITERATIONS"] # None THEN PyStrOrNone(env["ITERATIONS"])
                 ELSE PyInt(DefaultIterations)
          [] k = N_EXPIRY_TIME_EPOCH_SEC ->
                 PyInt(ExpiryTime(t1, t2, ParseInt(HealthValidityHoursText(env)).val))]

\* lines 215-231: how expand_template(yaml_template) ends, given the
\* filesystem, the environment, the two clock readings and the uuid drawn
ExpandTemplate(fs, env, yaml_template, t1, t2, uuid4) ==
    IF yaml_template \notin DOMAIN fs
    THEN [raised |-> TRUE, value |-> "FileNotFoundError"]
    ELSE IF ~ParseInt(HealthValidityHoursText(env)).ok
    THEN [raised |-> TRUE, value |-> "ValueError"]
    ELSE [raised |-> FALSE,
          value |-> SafeSubstitute(fs[yaml_template], TemplateMapping(env, t1, t2, uuid4))]

----------------------------------------------------------------------------
(* run_command and the provisioners *)

\* fmt % args for a format whose only conversions are %s, as many as args
RECURSIVE PercentFormat(_, _)
PercentFormat(fmt, args) ==
    IF fmt = <<>> THEN <<>>
    ELSE IF Len(fmt) >= 2 /\ fmt[1] = "%" /\ fmt[2] = "s"
         THEN Head(args) \o PercentFormat(SubSeq(fmt, 3, Len(fmt)), Tail(args))
    ELSE <<Head(fmt)>> \o PercentFormat(Tail(fmt), args)

K_APPLY_FORMAT == <<"%", "s", " ", "a", "p", "p", "l", "y", " ", "-", "f", " ", "%", "s">>
K_DELETE_FORMAT == <<"%", "s", " ", "d", "e", "l", "e", "t", "e", " ", "-", "f", " ", "%", "s">>

\* the events of the trace
CallEvent(fn, args) == [ev |-> "call", fn |-> fn, args |-> args]
ReturnEvent(fn, value) == [ev |-> "return", fn |-> fn, value |-> value]
RaiseEvent(fn, exc) == [ev |-> "raise", fn |-> fn, value |-> exc]
\* print("running: %s" % command)
PrintRunning(command) == [ev |-> "print", line |-> "running", command |-> command]
\* print("took: %s seconds\nout: %s, err: %s" % (elapsed, stdout, stderr))
PrintTook(proc) == [ev |-> "print", line |-> "took", stdout |-> proc.stdout, stderr |-> proc.stderr]
\* print("adding label %s=%s to node %s" % (label, value, node_name))
PrintAddingLabel(node_name, label, value) == [ev |-> "print", line |-> "adding label", label |-> label, value |-> value, node_name |-> node_name]
\* subprocess.run(command, shell=True, check=check, ...) ran to completion
\* with the outcome proc
SubprocessRun(command, check, proc) == [ev |-> "subprocess.run", command |-> command, check |-> check, returncode |-> proc.returncode, stdout |-> proc.stdout, stderr |-> proc.stderr]

\* what subprocess.run returns, and what it raises under check=True
CompletedProcess(command, proc) == [class |-> "CompletedProcess", args |-> command, returncode |-> proc.returncode, stdout |-> proc.stdout, stderr |-> proc.stderr]
CalledProcessError(command, proc) == [class |-> "CalledProcessError", cmd |-> command, returncode |-> proc.returncode, stdout |-> proc.stdout, stderr |-> proc.stderr]

\* subprocess.run, had check been passed as True whatever the argument
SubprocessRaisesAlways(check, proc) == proc.returncode # 0

\* subprocess.run with check=True raises on a non-zero exit status

SubprocessRaises(check, proc) == check /\ proc.returncode # 0

\* run_command, had it lacked its second print
RunCommandSilent(command, check, proc) ==
    [events |-> <<PrintRunning(command), SubprocessRun(command, check, proc)>>,
     raised |-> check /\ proc.returncode # 0,
     value |-> IF check /\ proc.returncode # 0 THEN CalledProcessError(command, proc) ELSE CompletedProcess(command, proc)]

\* lines 70-84: the prints and the subprocess of run_command(command,
\* check), and how it ends; the second print is not reached when
\* subprocess.run raises
RunCommand(command, check, proc) ==
    IF SubprocessRaises(check, proc)
    THEN [events |-> <<PrintRunning(command), SubprocessRun(command, check, proc)>>,
          raised |-> TRUE, value |-> CalledProcessError(command, proc)]
    ELSE [events |-> <<PrintRunning(command), SubprocessRun(command, check, proc), PrintTook(proc)>>,
          raised |-> FALSE, value |-> CompletedProcess(command, proc)]

\* the default the docstring of run_command names
CheckDefaultTrue == TRUE

\* the default of run_command's check (line 56), used by every caller in
\* this module

CheckDefault == FALSE

\* the closures: line 173 captures helm_uninstall_command, lines 209-210
\* capture kubectl_path and yaml_path; id is the identity of the function
\* object
UninstallHelmRelease(id, helm_uninstall_command) == [id |-> id, fn |-> "uninstall_helm_release", helm_uninstall_command |-> helm_uninstall_command]
DeleteYamlFile(id, kubectl_path, yaml_path) == [id |-> id, fn |-> "delete_yaml_file", kubectl_path |-> kubectl_path, yaml_path |-> yaml_path]

\* the uninstall command, had it named the chart instead of the release
UninstallCommandWithChart(a) == GenerateHelmCommand(a.helm_path, a.chart, None, None, None, a.helm_install_flags, UNINSTALL)

\* lines 166-171: the command the closure will run, built when the release
\* is installed
UninstallCommandOf(a) == GenerateHelmCommand(a.helm_path, a.release_name, None, None, None, a.helm_install_flags, UNINSTALL)

\* install_helm_release, had it run the uninstall command on the spot
\* instead of wrapping it in the lambda
InstallHelmReleaseEager(a, id, proc) ==
    LET r == RunCommand(GenerateHelmCommand(a.helm_path, a.release_name, a.chart, a.values, a.chart_version, a.helm_install_flags, INSTALL), CheckDefault, proc)
        u == RunCommand(UninstallCommandOf(a), CheckDefault, proc)
    IN [events |-> r.events \o u.events, raised |-> FALSE, value |-> UninstallHelmRelease(id, UninstallCommandOf(a))]

\* lines 142-174: install_helm_release(**a); id is the identity the
\* returned closure gets
InstallHelmRelease(a, id, proc) ==
    LET helm_install_command == GenerateHelmCommand(a.helm_path, a.release_name, a.chart, a.values, a.chart_version, a.helm_install_flags, INSTALL)
        r == RunCommand(helm_install_command, CheckDefault, proc)
    IN IF r.raised THEN r
       ELSE [events |-> r.events, raised |-> FALSE, value |-> UninstallHelmRelease(id, UninstallCommandOf(a))]

\* lines 193-212: apply_yaml_file(yaml_path, kubectl_path)
ApplyYamlFile(yaml_path, kubectl_path, id, proc) ==
    LET r == RunCommand(PercentFormat(K_APPLY_FORMAT, <<kubectl_path, yaml_path>>), CheckDefault, proc)
    IN IF r.raised THEN r
       ELSE [events |-> r.events, raised |-> FALSE, value |-> DeleteYamlFile(id, kubectl_path, yaml_path)]

\* the command a closure runs when it is invoked (lines 173 and 210)
CleanupCommand(closure) ==
    IF closure.fn = "uninstall_helm_release" THEN closure.helm_uninstall_command
    ELSE PercentFormat(K_DELETE_FORMAT, <<closure.kubectl_path, closure.yaml_path>>)

----------------------------------------------------------------------------
(* State shared by the specifications *)

EnvNames == {"DRY_RUN", "CHECK_TIME_EPOCH_SEC", "R_LEVEL", "IMAGE_TAG", "SHORT_GUID", "ITERATIONS", "HEALTH_VALIDITY_HOURS"}

NoCall == [fn |-> "none", done |-> TRUE]

\* the first second of the modelled clock: one second before the default
\* validity of 24 hours has elapsed since the epoch
ClockStart == 86399
MaxTicks == 2

----------------------------------------------------------------------------
(* Specification of the helm command builder: any caller, any arguments *)

MaxValues == 2

HelmPaths == {<<"h", "e", "l", "m">>, <<"/", "h">>}
Releases == {<<"r">>, <<"n", "g">>}
Charts == {None, <<"n", "g">>, <<"c", "/", "n", "g">>}
Versions == {None, <<"1", ".", "2">>}
Flags == {None, <<>>, <<"-", "w">>}
ValueKeys == {<<"a">>, <<"b">>, <<"c">>}
ValueVals == {<<"1">>, <<"x", "y">>}

\* dicts with at most MaxValues entries, as item sequences with distinct keys
ItemSeqs == UNION {[1..n -> ValueKeys \X ValueVals] : n \in 0..MaxValues}
Dicts == {d \in ItemSeqs : \A i, j \in 1..Len(d) : i # j => d[i][1] # d[j][1]}
ValueDicts == {None} \cup Dicts

HelmArgs == [helm_path : HelmPaths, release_name : Releases, chart : Charts, values : ValueDicts, chart_version : Versions, helm_install_flags : Flags, helm_command_type : HelmCommand]

\* a call in progress, and the same call once it has returned
Pending(fn, args) == [fn |-> fn, args |-> args, done |-> FALSE]
Returned(fn, args, value) == [fn |-> fn, args |-> args, done |-> TRUE, raised |-> FALSE, value |-> value]
Raised(fn, args, exc) == [fn |-> fn, args |-> args, done |-> TRUE, raised |-> TRUE, value |-> exc]

GenerateHelmCommandCall ==
    /\ result.fn = "generate_helm_command" /\ ~result.done
    /\ LET a == result.args
       IN result' = Returned(result.fn, a, GenerateHelmCommand(a.helm_path, a.release_name, a.chart, a.values, a.chart_version, a.helm_install_flags, a.helm_command_type))
    /\ UNCHANGED <<environ, clock, files, trace, cleanup_functions>>

InitHelm ==
    /\ environ = [n \in EnvNames |-> None]
    /\ clock = ClockStart
    /\ files = <<>>
    /\ trace = <<>>
    /\ cleanup_functions = <<>>
    /\ \E a \in HelmArgs : result = Pending("generate_helm_command", a)

NextHelm == GenerateHelmCommandCall

SpecHelm == InitHelm /\ [][NextHelm]_vars

HelmDone == result.fn = "generate_helm_command" /\ result.done

WordUninstall == <<"u", "n", "i", "n", "s", "t", "a", "l", "l">>
WordInstall == <<"i", "n", "s", "t", "a", "l", "l">>
WordVersion == <<"-", "-", "v", "e", "r", "s", "i", "o", "n">>
WordSet == <<"-", "-", "s", "e", "t">>

\* the words of ws joined by single spaces
JoinSpace(ws) == ws[1] \o Concat([i \in 1..(Len(ws) - 1) |-> <<" ">> \o ws[i + 1]])

\* C5 (as amended): in mode uninstall the command is exactly
\* `<helmPath> uninstall <releaseName>`, whatever chart, values, chartVersion
\* and extraFlags are: nothing precedes helmPath, nothing follows
\* releaseName, and it contains "uninstall " + releaseName.
C5_UninstallExact ==
    (HelmDone /\ result.args.helm_command_type = UNINSTALL) =>
        LET a == result.args
            c == result.value
            n == Len(a.helm_path)
        IN /\ Len(c) = n + Len(WordUninstall) + 2 + Len(a.release_name)
           /\ StartsWith(c, a.helm_path)
           /\ SubSeq(c, n + 1, n + Len(WordUninstall) + 2) = <<" ">> \o WordUninstall \o <<" ">>
           /\ EndsWith(c, a.release_name)
           /\ Contains(c, WordUninstall \o <<" ">> \o a.release_name)

\* C5 witness: an uninstall command was built from a call that also gave a
\* chart, a non-empty values mapping, a chart version and extra flags
C5_Witness ==
    /\ HelmDone /\ result.args.helm_command_type = UNINSTALL
    /\ result.args.chart # None /\ result.args.chart_version # None
    /\ result.args.values # None /\ result.args.values # <<>>
    /\ result.args.helm_install_flags # None /\ result.args.helm_install_flags # <<>>

\* C5 as stated: in mode uninstall the command never contains the chart name
C5_NeverContainsChart ==
    (HelmDone /\ result.args.helm_command_type = UNINSTALL /\ result.args.chart # None) =>
        ~Contains(result.value, result.args.chart)

\* the fragments C6 lists, in the order it lists them
InstallWords(a) ==
    <<a.helm_path, WordInstall, a.release_name, a.chart>>
    \o (IF a.chart_version # None THEN <<WordVersion, a.chart_version>> ELSE <<>>)
    \o (IF a.values # None
        THEN Concat([i \in 1..Len(a.values) |-> <<WordSet, a.values[i][1] \o <<"=">> \o a.values[i][2]>>])
        ELSE <<>>)
    \o (IF a.helm_install_flags # None THEN <<a.helm_install_flags>> ELSE <<>>)

\* C6: in mode install (with a chart) the command is `<helmPath> install
\* <releaseName> <chart>`, then `--version <chartVersion>` if given, then
\* one `--set k=v` per entry of values in insertion order if given, then
\* extraFlags verbatim if given, each separated by one space; what is not
\* given contributes nothing.
C6_InstallFragments ==
    (HelmDone /\ result.args.helm_command_type = INSTALL /\ result.args.chart # None) =>
        result.value = JoinSpace(InstallWords(result.args))

\* C6 witness: an install command built with a version, two values and flags
C6_Witness ==
    /\ HelmDone /\ result.args.helm_command_type = INSTALL
    /\ result.args.chart # None /\ result.args.chart_version # None
    /\ result.args.values # None /\ Len(result.args.values) >= 2
    /\ result.args.helm_install_flags # None /\ result.args.helm_install_flags # <<>>

----------------------------------------------------------------------------
(* Specification of template expansion: a template file, a caller that     *)
(* expands it any number of times, an environment and a clock that change  *)
(* between the calls                                                       *)

YamlPath == <<"t", ".", "y">>
MissingPath == <<"m", ".", "y">>

\* templates: a prefix, a name and a suffix, covering `$NAME`, `${NAME}`,
\* the escape `$$`, unknown names and malformed placeholders
TemplatePre == {<<>>, <<"$">>, <<"$", "{">>, <<"$", "$">>, <<"$", "$", "{">>, <<"{">>}
TemplateMid == MappingKeys \cup {<<"F", "O", "O">>, <<"i", "m", "a", "g", "e", "_", "t", "a", "g">>, <<"I", "M", "A", "G", "E", "_", "T", "A", "G", "1">>, <<"1">>, <<>>, <<"_">>}
TemplatePost == {<<>>, <<"}">>, <<"-">>, <<"}", "$", "$">>, <<"}", "$", "{", "F", "O", "O", "}">>}
Templates == {pre \o mid \o post : pre \in TemplatePre, mid \in TemplateMid, post \in TemplatePost}

\* what the caller may set in the environment (None: unset)
EnvSettings == {<<"IMAGE_TAG", None>>, <<"IMAGE_TAG", <<"v", "2">>>>, <<"HEALTH_VALIDITY_HOURS", None>>, <<"HEALTH_VALIDITY_HOURS", <<"1">>>>, <<"HEALTH_VALIDITY_HOURS", <<"-", "1">>>>, <<"HEALTH_VALIDITY_HOURS", <<"x">>>>}

\* str(uuid.uuid4()), as far as the code reads it
Uuid4s == {<<"1", "a", "2", "b", "-">>, <<"f", "f", "f", "f", "-">>}

LastSecond == ClockStart + MaxTicks

\* expand_template(yaml_template): the clock is read at line 220 and again
\* at line 228, and may have advanced by then
ExpandTemplateCall(yaml_template, d, uuid4) ==
    /\ clock + d <= LastSecond
    /\ (yaml_template \notin DOMAIN files => d = 0)
    /\ clock' = clock + d
    /\ UNCHANGED <<environ, files, trace, cleanup_functions>>
    /\ LET r == ExpandTemplate(files, environ, yaml_template, clock, clock + d, uuid4)
           a == [yaml_template |-> yaml_template]
       IN result' = IF r.raised THEN Raised("expand_template", a, r.value)
                    ELSE Returned("expand_template", a, r.value)

\* time passes between two calls
Tick ==
    /\ clock < LastSecond
    /\ clock' = clock + 1
    /\ UNCHANGED <<environ, files, trace, cleanup_functions, result>>

\* the caller (or whoever started the process) sets or unsets a variable
Putenv(name, value) ==
    /\ environ[name] # value
    /\ environ' = [environ EXCEPT ![name] = value]
    /\ UNCHANGED <<clock, files, trace, cleanup_functions, result>>

InitTemplate ==
    /\ environ = [n \in EnvNames |-> None]
    /\ clock = ClockStart
    /\ \E t \in Templates : files = (YamlPath :> t)
    /\ trace = <<>>
    /\ cleanup_functions = <<>>
    /\ result = NoCall

NextTemplate ==
    \/ \E p \in {YamlPath, MissingPath}, d \in {0, 1}, u \in Uuid4s : ExpandTemplateCall(p, d, u)
    \/ Tick
    \/ \E s \in EnvSettings : Putenv(s[1], s[2])

SpecTemplate == InitTemplate /\ [][NextTemplate]_vars

TemplateText == files[YamlPath]

\* the last call was expand_template on the template file and it returned
ExpandReturned ==
    /\ result.fn = "expand_template" /\ result.done /\ ~result.raised
    /\ result.args.yaml_template = YamlPath

\* this step is a call of expand_template on the template file
ExpandStep ==
    /\ environ' = environ /\ clock' - clock \in {0, 1}
    /\ \E u \in Uuid4s : ExpandTemplateCall(YamlPath, clock' - clock, u)

IsText(s) == \A i \in 1..Len(s) : s[i] # "$"

\* `$name` (not followed by an identifier character) or `${name}` occurs in t
Occurs(t, name) ==
    \/ Contains(t, <<"$", "{">> \o name \o <<"}">>)
    \/ \E i \in 1..(Len(t) - Len(name)) :
          /\ SubSeq(t, i, i + Len(name)) = <<"$">> \o name
          /\ (i + Len(name) + 1 > Len(t) \/ ~IsIdChar(t[i + Len(name) + 1]))

HasRecognized(t) == \E k \in MappingKeys : Occurs(t, k)

\* t with every `$$`, leftmost first, replaced by `$`
RECURSIVE Unescape(_)
Unescape(t) ==
    IF t = <<>> THEN <<>>
    ELSE IF Len(t) >= 2 /\ t[1] = "$" /\ t[2] = "$" THEN <<"$">> \o Unescape(SubSeq(t, 3, Len(t)))
    ELSE <<Head(t)>> \o Unescape(Tail(t))

\* wherever t is plain text around one placeholder for name, out is that
\* text around val
SubstitutedBy(t, name, out, val) ==
    \A ph \in {<<"$", "{">> \o name \o <<"}">>, <<"$">> \o name} :
        \A i \in 1..(Len(t) - Len(ph) + 1) :
            LET pre == SubSeq(t, 1, i - 1)
                post == SubSeq(t, i + Len(ph), Len(t))
            IN (/\ SubSeq(t, i, i + Len(ph) - 1) = ph
                /\ IsText(pre) /\ IsText(post)
                /\ (ph[2] # "{" /\ post # <<>> => ~IsIdChar(post[1])))
               => out = pre \o val \o post

\* the decimal texts of the whole numbers of hours the environment holds
HoursRange == -24..24

\* C8 (as amended): a template without a placeholder of one of the eight
\* fixed names comes out verbatim, unknown names (`${FOO}`) and malformed
\* placeholders included, except that the escape `$$` comes out as one `$`;
\* on an existing file no placeholder causes an error (the only error is a
\* HEALTH_VALIDITY_HOURS that is no integer); `${IMAGE_TAG}` is replaced by
\* "latest" when IMAGE_TAG is unset and by its value when it is set.
C8_SafeSubstitution ==
    /\ [](ExpandReturned /\ ~HasRecognized(TemplateText) => result.value = Unescape(TemplateText))
    /\ [][ExpandStep =>
            /\ result'.raised =>
                  /\ environ["HEALTH_VALIDITY_HOURS"] # None
                  /\ \A h \in HoursRange : environ["HEALTH_VALIDITY_HOURS"] # IntToStr(h)
            /\ ~result'.raised =>
                  SubstitutedBy(TemplateText, N_IMAGE_TAG, result'.value,
                                IF environ["IMAGE_TAG"] = None THEN <<"l", "a", "t", "e", "s", "t">> ELSE environ["IMAGE_TAG"])]_vars

\* C8 witness: `${IMAGE_TAG}${FOO}` was expanded with IMAGE_TAG unset, to
\* `latest${FOO}`
C8_Witness ==
    /\ ExpandReturned
    /\ TemplateText = <<"$", "{", "I", "M", "A", "G", "E", "_", "T", "A", "G", "}", "$", "{", "F", "O", "O", "}">>
    /\ environ["IMAGE_TAG"] = None
    /\ result.value = <<"l", "a", "t", "e", "s", "t", "$", "{", "F", "O", "O", "}">>

\* C8 as stated: only placeholders of the fixed names are substituted, so a
\* template without any comes out unchanged
C8_OnlyRecognizedChanged ==
    (ExpandReturned /\ ~HasRecognized(TemplateText)) => result.value = TemplateText

\* C10: in every expansion CHECK_TIME_EPOCH_SEC is replaced by the clock
\* reading of that call, and EXPIRY_TIME_EPOCH_SEC by the clock reading of
\* that call minus H * 3600, H being the integer HEALTH_VALIDITY_HOURS
\* holds, or 24 when it is unset; this holds for every call, whatever
\* earlier calls returned.
C10_TimesRecomputed ==
    [][(ExpandStep /\ ~result'.raised) =>
          /\ SubstitutedBy(TemplateText, N_CHECK_TIME_EPOCH_SEC, result'.value, IntToStr(clock))
          /\ \E h \in HoursRange :
                /\ \/ environ["HEALTH_VALIDITY_HOURS"] = None /\ h = 24
                   \/ environ["HEALTH_VALIDITY_HOURS"] = IntToStr(h)
                /\ SubstitutedBy(TemplateText, N_EXPIRY_TIME_EPOCH_SEC, result'.value, IntToStr(clock' - h * 3600))]_vars

\* C10 witness: after the clock advanced and HEALTH_VALIDITY_HOURS was set
\* to 1, `${EXPIRY_TIME_EPOCH_SEC}` was expanded to the clock minus 3600
C10_Witness ==
    /\ ExpandReturned
    /\ TemplateText = <<"$", "{", "E", "X", "P", "I", "R", "Y", "_", "T", "I", "M", "E", "_", "E", "P", "O", "C", "H", "_", "S", "E", "C", "}">>
    /\ environ["HEALTH_VALIDITY_HOURS"] = <<"1">>
    /\ clock > ClockStart
    /\ result.value = IntToStr(clock - 3600)

----------------------------------------------------------------------------
(* Specification of the runner and the provisioners: a health checker      *)
(* that calls this module up to MaxCalls times, each external command      *)
(* ending with whatever status the cluster gives it; its template holds no  *)
(* time, so the clock is read without advancing here                       *)

MaxCalls == 3

KubectlPath == <<"k", "c">>
HelmPath == <<"h", "e", "l", "m">>
\* the names tempfile may give the next file: two that no earlier file was
\* offered both of, so that one of them is always unused
TempPath(i) == <<"/", "t">> \o IntToStr(i)
TempPaths == {TempPath(i) : i \in 0..MaxCalls}
NextTempPaths == {TempPath(i) : i \in {Cardinality(DOMAIN files) - 1, Cardinality(DOMAIN files)}}

\* the outcomes of external commands: success or failure, with some output
Procs == {[returncode |-> 0, stdout |-> <<"h", "i">>, stderr |-> <<>>], [returncode |-> 1, stdout |-> <<>>, stderr |-> <<"e">>]}

Commands == {<<"e", "x", "i", "t", " ", "1">>}
LabelFormat == <<"k", "c", " ", "l", "a", "b", "e", "l", " ", "%", "s", " ", "%", "s", "=", "%", "s">>
RunHelmArgs == {[helm_path |-> HelmPath, release_name |-> <<"r">>, chart |-> <<"n", "g">>, values |-> None, chart_version |-> None, helm_install_flags |-> None], [helm_path |-> HelmPath, release_name |-> <<"n", "g">>, chart |-> <<"c", "/", "n", "g">>, values |-> None, chart_version |-> None, helm_install_flags |-> <<"-", "w">>]}
CreateHelmArgs == [helm_path : {HelmPath}, release_name : {<<"r">>}, chart : {<<"n", "g">>}, values : {<<<<<<"a">>, <<"1">>>>>>}, chart_version : {<<"1", ".", "2">>}, helm_install_flags : {None}]

NumCalls == Cardinality({i \in 1..Len(trace) : trace[i].ev = "call"})
NextId == Len(cleanup_functions) + 1

\* a call of fn(args) that printed and ran r.events and ended as r did;
\* closures are the closures it handed to the caller
Finish(fn, args, r, closures) ==
    /\ trace' = trace \o <<CallEvent(fn, args)>> \o r.events
                      \o <<IF r.raised THEN RaiseEvent(fn, r.value) ELSE ReturnEvent(fn, r.value)>>
    /\ result' = IF r.raised THEN Raised(fn, args, r.value) ELSE Returned(fn, args, r.value)
    /\ cleanup_functions' = IF r.raised THEN cleanup_functions ELSE cleanup_functions \o closures

\* run_command(command, check)
RunCommandCall(command, check, proc) ==
    /\ NumCalls < MaxCalls
    /\ Finish("run_command", [command |-> command, check |-> check], RunCommand(command, check, proc), <<>>)
    /\ UNCHANGED <<environ, clock, files>>

\* lines 37-52: add_label(node_name, label, value, label_format)
AddLabelCall(node_name, label, value, label_format, proc) ==
    /\ NumCalls < MaxCalls
    /\ LET r == RunCommand(PercentFormat(label_format, <<node_name, label, value>>), CheckDefault, proc)
       IN Finish("add_label", [node_name |-> node_name, label |-> label, value |-> value, label_format |-> label_format],
                 [events |-> <<PrintAddingLabel(node_name, label, value)>> \o r.events, raised |-> r.raised,
                  value |-> IF r.raised THEN r.value ELSE None], <<>>)
    /\ UNCHANGED <<environ, clock, files>>

\* install_helm_release(**a)
InstallHelmReleaseCall(a, proc) ==
    /\ NumCalls < MaxCalls
    /\ LET r == InstallHelmRelease(a, NextId, proc)
       IN Finish("install_helm_release", a, r, <<r.value>>)
    /\ UNCHANGED <<environ, clock, files>>

\* lines 117-139: create_helm_release(**a) returns the list of the one
\* closure install_helm_release returned
CreateHelmReleaseCall(a, proc) ==
    /\ NumCalls < MaxCalls
    /\ LET r == InstallHelmRelease(a, NextId, proc)
           cleanup == IF r.raised THEN r ELSE [events |-> r.events, raised |-> FALSE, value |-> <<r.value>>]
       IN Finish("create_helm_release", a, cleanup, <<r.value>>)
    /\ UNCHANGED <<environ, clock, files>>

\* apply_yaml_file(yaml_path, kubectl_path)
ApplyYamlFileCall(yaml_path, kubectl_path, proc) ==
    /\ NumCalls < MaxCalls
    /\ LET r == ApplyYamlFile(yaml_path, kubectl_path, NextId, proc)
       IN Finish("apply_yaml_file", [yaml_path |-> yaml_path, kubectl_path |-> kubectl_path], r, <<r.value>>)
    /\ UNCHANGED <<environ, clock, files>>

\* line 189, had it applied the template path instead of the temporary file
AppliedPathIsTemplate(yaml_path, file_name) == yaml_path

\* line 189: the path create_k8s_objects applies
AppliedPath(yaml_path, file_name) == file_name

\* lines 177-190: create_k8s_objects(yaml_path, kubectl_path); file_name is
\* the name tempfile.NamedTemporaryFile(delete=False) gives the new file
CreateK8sObjectsCall(yaml_path, kubectl_path, d, uuid4, file_name, proc) ==
    /\ NumCalls < MaxCalls
    /\ clock + d <= LastSecond
    /\ (yaml_path \notin DOMAIN files => d = 0)
    /\ file_name \in NextTempPaths \ DOMAIN files
    /\ clock' = clock + d
    /\ LET args == [yaml_path |-> yaml_path, kubectl_path |-> kubectl_path]
           x == ExpandTemplate(files, environ, yaml_path, clock, clock + d, uuid4)
           r == ApplyYamlFile(AppliedPath(yaml_path, file_name), kubectl_path, NextId, proc)
       IN IF x.raised
          THEN /\ Finish("create_k8s_objects", args, [events |-> <<>>, raised |-> TRUE, value |-> x.value], <<>>)
               /\ files' = files
          ELSE /\ files' = files @@ (file_name :> x.value)
               /\ Finish("create_k8s_objects", args,
                         IF r.raised THEN r ELSE [events |-> r.events, raised |-> FALSE, value |-> <<r.value>>],
                         <<r.value>>)
    /\ UNCHANGED environ

\* the caller invokes a closure it was given; nothing stops it from doing
\* so again
InvokeCleanup(i, proc) ==
    /\ NumCalls < MaxCalls
    /\ i \in 1..Len(cleanup_functions)
    /\ Finish(cleanup_functions[i].fn, [closure |-> cleanup_functions[i]],
              RunCommand(CleanupCommand(cleanup_functions[i]), CheckDefault, proc), <<>>)
    /\ UNCHANGED <<environ, clock, files>>

RunTemplate == <<"t", "a", "g", ":", " ", "$", "{", "I", "M", "A", "G", "E", "_", "T", "A", "G", "}", " ", "$", "$", "{", "x", "}">>

InitRun ==
    /\ environ = [n \in EnvNames |-> None]
    /\ clock = ClockStart
    /\ files = (YamlPath :> RunTemplate)
    /\ trace = <<>>
    /\ cleanup_functions = <<>>
    /\ result = NoCall

NextRun ==
    \/ \E c \in Commands, check \in BOOLEAN, proc \in Procs : RunCommandCall(c, check, proc)
    \/ \E proc \in Procs : AddLabelCall(<<"n", "1">>, <<"o", "k">>, <<"1">>, LabelFormat, proc)
    \/ \E a \in RunHelmArgs, proc \in Procs : InstallHelmReleaseCall(a, proc)
    \/ \E a \in CreateHelmArgs, proc \in Procs : CreateHelmReleaseCall(a, proc)
    \/ \E proc \in Procs : ApplyYamlFileCall(YamlPath, KubectlPath, proc)
    \/ \E p \in {YamlPath, MissingPath}, f \in TempPaths, proc \in Procs : CreateK8sObjectsCall(p, KubectlPath, 0, <<"1", "a", "2", "b", "-">>, f, proc)
    \/ \E i \in 1..MaxCalls, proc \in Procs : InvokeCleanup(i, proc)

SpecRun == InitRun /\ [][NextRun]_vars

----------------------------------------------------------------------------
(* The claims about the runner and the provisioners *)

Provisioners == {"install_helm_release", "create_helm_release", "apply_yaml_file", "create_k8s_objects"}
HelmProvisioners == {"install_helm_release", "create_helm_release"}
ListReturning == {"create_helm_release", "create_k8s_objects"}
Cleanups == {"uninstall_helm_release", "delete_yaml_file"}

CallsOf(fns) == {i \in 1..Len(trace) : trace[i].ev = "call" /\ trace[i].fn \in fns}
IsEnd(j) == trace[j].ev \in {"return", "raise"}
\* where the call that starts at trace[i] ends
EndOf(i) == CHOOSE j \in (i + 1)..Len(trace) : IsEnd(j) /\ \A k \in (i + 1)..(j - 1) : ~IsEnd(k)
\* the commands executed during the call that starts at trace[i]
RunsOf(i) == {k \in (i + 1)..(EndOf(i) - 1) : trace[k].ev = "subprocess.run"}
AllRuns == {k \in 1..Len(trace) : trace[k].ev = "subprocess.run"}
\* the closure a provisioning call returned
ClosureOf(i) == IF trace[i].fn \in ListReturning THEN trace[EndOf(i)].value[1] ELSE trace[EndOf(i)].value
Returning(fns) == {i \in CallsOf(fns) : trace[EndOf(i)].ev = "return"}
\* the invocations of the closure the provisioning call at trace[i] returned
InvocationsOf(i) == {m \in CallsOf(Cleanups) : trace[m].args.closure = ClosureOf(i)}

WordApply == <<"a", "p", "p", "l", "y", " ", "-", "f">>
WordDelete == <<"d", "e", "l", "e", "t", "e", " ", "-", "f">>

C3_InstallBeforeUninstall ==
    /\ \A i \in CallsOf(HelmProvisioners) :
          /\ Cardinality(RunsOf(i)) = 1
          /\ \A k \in RunsOf(i) :
                /\ trace[k].command = JoinSpace(InstallWords(trace[i].args))
                /\ trace[k + 1] = PrintTook(trace[k])
                /\ EndOf(i) = k + 2
    /\ \A k \in AllRuns :
          Contains(trace[k].command, <<" ">> \o WordUninstall \o <<" ">>) =>
              \E i \in Returning(HelmProvisioners) : \E m \in InvocationsOf(i) :
                  /\ k \in RunsOf(m)
                  /\ EndOf(i) < m

\* C3 witness: a release was installed and the returned Cleanup Action was
\* invoked afterwards
C3_Witness ==
    \E i \in Returning({"install_helm_release"}) : \E m \in InvocationsOf(i) :
        \E k \in RunsOf(m) : Contains(trace[k].command, WordUninstall)

\* C4: every invocation of the Cleanup Action installHelmRelease returned,
\* the first and any later one, runs exactly the command
\* buildHelmCommand(helmPath, releaseName, mode=uninstall), that is
\* `<helmPath> uninstall <releaseName>`, of the call that returned it.
C4_CleanupRunsUninstall ==
    \A i \in Returning(HelmProvisioners) : \A m \in InvocationsOf(i) :
        /\ Cardinality(RunsOf(m)) = 1
        /\ \A k \in RunsOf(m) :
              /\ trace[k].command = GenerateHelmCommand(trace[i].args.helm_path, trace[i].args.release_name, None, None, None, None, UNINSTALL)
              /\ trace[k].command = JoinSpace(<<trace[i].args.helm_path, WordUninstall, trace[i].args.release_name>>)

\* C4 witness: the Cleanup Action of a release installed with extra flags
\* was invoked twice
C4_Witness ==
    \E i \in Returning({"install_helm_release"}) :
        /\ trace[i].args.helm_install_flags # None
        /\ Cardinality(InvocationsOf(i)) = 2

\* the calls of create_k8s_objects that returned
Created == Returning({"create_k8s_objects"})

\* C7: applyManifest writes the expanded template to a newly created
\* temporary file, runs `<kubectlPath> apply -f <tempFilePath>` before it
\* returns, and returns a Cleanup Action that runs `<kubectlPath> delete -f
\* <tempFilePath>` on that temporary file, not on yamlPath, and only when
\* invoked; no call deletes the temporary file or changes the file at
\* yamlPath.
C7_TemporaryManifest ==
    /\ [](/\ \A i \in Created :
               LET c == ClosureOf(i)
               IN /\ c.yaml_path # trace[i].args.yaml_path
                  /\ c.yaml_path \in DOMAIN files
                  /\ files[c.yaml_path] = <<"t", "a", "g", ":", " ", "l", "a", "t", "e", "s", "t", " ", "$", "{", "x", "}">>
                  /\ \A j \in Created : j # i => ClosureOf(j).yaml_path # c.yaml_path
                  /\ Cardinality(RunsOf(i)) = 1
                  /\ \A k \in RunsOf(i) : trace[k].command = JoinSpace(<<trace[i].args.kubectl_path, WordApply, c.yaml_path>>)
                  /\ \A m \in InvocationsOf(i) :
                        /\ Cardinality(RunsOf(m)) = 1
                        /\ \A k \in RunsOf(m) : trace[k].command = JoinSpace(<<trace[i].args.kubectl_path, WordDelete, c.yaml_path>>)
          /\ \A k \in AllRuns :
                Contains(trace[k].command, WordDelete) => \E m \in CallsOf({"delete_yaml_file"}) : k \in RunsOf(m)
          /\ Cardinality(DOMAIN files) = 1 + Cardinality(Created))
    /\ [][\A p \in DOMAIN files : p \in DOMAIN files' /\ files'[p] = files[p]]_vars

\* C7 witness: a manifest was applied from a temporary file, its Cleanup
\* Action was invoked, and the temporary file is still there
C7_Witness ==
    \E i \in Created : \E m \in InvocationsOf(i) :
        /\ ClosureOf(i).yaml_path \in TempPaths
        /\ ClosureOf(i).yaml_path \in DOMAIN files
        /\ \E k \in RunsOf(m) : Contains(trace[k].command, WordDelete)

\* the two diagnostic lines around the command executed at trace[k]
AnnouncedBefore(k) == k > 1 /\ trace[k - 1] = PrintRunning(trace[k].command)
ReportedAfter(k) == k < Len(trace) /\ trace[k + 1] = PrintTook(trace[k])

\* C9 (as amended): every command run is announced by a diagnostic line
\* before it executes; the line reporting the elapsed time and the captured
\* stdout and stderr follows whenever run returns, that is unless
\* failOnError is set and the exit status is non-zero: then the call fails
\* right after the command and only the first line is written.
C9_DiagnosticLines ==
    \A k \in AllRuns :
        /\ AnnouncedBefore(k)
        /\ IF trace[k].check /\ trace[k].returncode # 0
           THEN k < Len(trace) /\ trace[k + 1].ev = "raise"
           ELSE ReportedAfter(k)

\* C9 witness: one command ran under failOnError and exited non-zero,
\* another exited non-zero without failOnError
C9_Witness ==
    \E k, n \in AllRuns :
        /\ trace[k].check /\ trace[k].returncode # 0
        /\ ~trace[n].check /\ trace[n].returncode # 0

\* C9 as stated: both lines are written for every command run, whatever
\* the exit status and failOnError
C9_AlwaysTwoLines == \A k \in AllRuns : AnnouncedBefore(k) /\ ReportedAfter(k)

============================================================================
